---- MODULE Spec2Model ----
(***************************************************************************)
(* A model of the RBI Guidelines chatbot (src/rbi_chatbot_minimal.py):     *)
(* the OllamaChat client (non-streaming and streaming generation, the      *)
(* availability probe) and the Streamlit handlers that own the transcript  *)
(* st.session_state.messages (Send, Quick Questions, Clear Chat).          *)
(*                                                                         *)
(* A text is a sequence of pieces.  Every piece the code's tests look at   *)
(* (whitespace for str.strip, the prefixes "Error:", "Error" and           *)
(* "Connection error" for str.startswith) is a single character; a piece   *)
(* of more than one character stands for a run of non-whitespace-bounded   *)
(* text the code only passes along (the detail of an error message, a      *)
(* fixed quick question).                                                  *)
(***************************************************************************)
EXTENDS Naturals, Sequences, FiniteSets, TLC

VARIABLES messages, last, allSuccess, stream

vars == <<messages, last, allSuccess, stream>>

\* ------------------------------------------------------------------ bounds

\* The Send and Quick handlers run only while the transcript has room for
\* the two turns one submission can add.
MaxTurns == 4

\* The longest sequence of lines the streaming backend sends.
MaxLines == 3

\* ------------------------------------------------------------------- texts

WS == {" ", "\t", "\n"}

RECURSIVE lstrip(_)
lstrip(s) == IF s # <<>> /\ Head(s) \in WS THEN lstrip(Tail(s)) ELSE s

RECURSIVE rstrip(_)
rstrip(s) ==
    IF s # <<>> /\ s[Len(s)] \in WS THEN rstrip(SubSeq(s, 1, Len(s) - 1)) ELSE s

\* A plausible slip: only the leading whitespace is removed.
StripLeftOnly(s) == lstrip(s)

\* str.strip(): leading and trailing whitespace removed.
Strip(s) == rstrip(lstrip(s))

\* str.startswith(prefix)
StartsWith(s, prefix) ==
    /\ Len(s) >= Len(prefix)
    /\ SubSeq(s, 1, Len(prefix)) = prefix

ErrorWord  == <<"E", "r", "r", "o", "r">>
ErrorColon == ErrorWord \o <<":">>
ConnectionErrorWord ==
    <<"C", "o", "n", "n", "e", "c", "t", "i", "o", "n", " ", "e", "r", "r", "o", "r">>

\* f"Error: {detail}" as the client writes it: "Error:", a space, the detail.
ErrorText(detail) == ErrorColon \o <<" ">> \o detail

\* ------------------------------------------------- the backend's outcomes

\* Exception classes and the classes an except clause naming them catches.
Ancestors(e) ==
    CASE e = "ReadTimeout"      -> {"ReadTimeout", "Timeout", "RequestException", "Exception"}
      [] e = "ConnectTimeout"   -> {"ConnectTimeout", "Timeout", "ConnectionError",
                                    "RequestException", "Exception"}
      [] e = "ConnectionError"  -> {"ConnectionError", "RequestException", "Exception"}
      [] e = "TooManyRedirects" -> {"TooManyRedirects", "RequestException", "Exception"}
      [] e = "ChunkedEncodingError" ->
                                   {"ChunkedEncodingError", "RequestException", "Exception"}
      \* response.json() of requests >= 2.27 over the standard json module
      [] e = "RequestsJSONDecodeError" ->
                                   {"RequestsJSONDecodeError", "JSONDecodeError",
                                    "RequestException", "ValueError", "Exception"}
      \* response.json() of requests >= 2.27 over simplejson
      [] e = "SimpleJSONDecodeError" ->
                                   {"SimpleJSONDecodeError", "RequestException",
                                    "ValueError", "Exception"}
      \* json.loads, and response.json() of older requests
      [] e = "JSONDecodeError"  -> {"JSONDecodeError", "ValueError", "Exception"}
      [] e = "UnicodeDecodeError" -> {"UnicodeDecodeError", "ValueError", "Exception"}
      [] e = "TypeError"        -> {"TypeError", "Exception"}
      [] e = "AttributeError"   -> {"AttributeError", "Exception"}
      [] OTHER                  -> {}

IsA(e, class) == class \in Ancestors(e)

\* What the backend's generated text can be.
Contents ==
    { <<>>,
      <<" ">>,
      <<"o", "k">>,
      <<" ", "o", "k", "\n">>,
      ErrorColon \o <<" ", "x">>,
      ErrorWord \o <<"s">>,
      ConnectionErrorWord \o <<"s">> }

NoText == <<>>

\* requests.post raised `exc`.
Fault(exc) ==
    [exc |-> exc, status |-> 0, shape |-> "none", decode |-> "none", content |-> NoText]

\* requests.post returned a response.
Response(status, shape, decode, content) ==
    [exc |-> "none", status |-> status, shape |-> shape, decode |-> decode,
     content |-> content]

PostFaults == {"ReadTimeout", "ConnectTimeout", "ConnectionError", "TooManyRedirects"}

\* The classes response.json() raises on a body that is not JSON.
DecodeFaults == {"RequestsJSONDecodeError", "SimpleJSONDecodeError", "JSONDecodeError"}

\* The shapes of a JSON body other than {"message": {"content": <string>}}.
OddShapes == {"nomessage", "nocontent", "messagenull", "contentnull", "notobject"}

Outcomes ==
    { Fault(e) : e \in PostFaults }
    \cup { Response(200, "content", "none", c) : c \in Contents }
    \cup { Response(200, s, "none", NoText) : s \in OddShapes }
    \cup { Response(200, "notjson", d, NoText) : d \in DecodeFaults }
    \cup { Response(st, "notjson", "none", NoText) : st \in {404, 500} }

NoOutcome == Fault("none")

\* -------------------------------------------------------------- OllamaChat

\* The result of running a piece of the client: a value returned (ret names
\* the return statement, text is the string returned) or an exception on its
\* way out (exc names its class).
Returned(ret, text) == [ret |-> ret, text |-> text, exc |-> "none"]
Throw(exc)          == [ret |-> "raise", text |-> NoText, exc |-> exc]

NoResult == Returned("none", NoText)

\* A slip: the emptiness test looks at the raw content and returns it as is.
ReadContentUnstripped(raw) ==
    IF raw # <<>>
    THEN Returned("content", raw)
    ELSE Returned("empty", ErrorText(<<"Empty content in response">>))

\* content = result["message"]["content"].strip(); return it unless empty.
ReadContent(raw) ==
    LET content == Strip(raw)
    IN  IF content # <<>>
        THEN Returned("content", content)
        ELSE Returned("empty", ErrorText(<<"Empty content in response">>))

\* The body of the try block once requests.post has returned, with the inner
\* try/except json.JSONDecodeError around the reading of the body.
ReadResponse(o) ==
    IF o.status = 200
    THEN CASE o.shape = "notjson" ->
                \* response.json() raises; the inner clause catches only a
                \* json.JSONDecodeError
                IF IsA(o.decode, "JSONDecodeError")
                THEN Returned("json",
                        ErrorText(<<"Failed to parse JSON response: ", o.decode>>))
                ELSE Throw(o.decode)
           [] o.shape = "notobject" ->
                \* a JSON array: "message" in result is False, result.keys() raises
                Throw("AttributeError")
           [] o.shape = "messagenull" ->
                \* "content" in None
                Throw("TypeError")
           [] o.shape = "contentnull" ->
                \* None.strip()
                Throw("AttributeError")
           [] o.shape = "content" -> ReadContent(o.content)
           [] OTHER ->
                \* "message" or "content" is not there
                Returned("format",
                    ErrorText(<<"Invalid response format. Keys: ", o.shape>>))
    ELSE Returned("status",
            ErrorText(<<"API returned status ", ToString(o.status), ": ", o.shape>>))

\* A slip: the clauses for ConnectionError and Timeout in the other order, and
\* no catch-all.
OuterHandlerReordered(exc) ==
    CASE IsA(exc, "ConnectionError") ->
            Returned("connect", ErrorText(<<"Could not connect to Ollama. Is it running?">>))
      [] IsA(exc, "Timeout") ->
            Returned("timeout", ErrorText(<<"Request timed out after 60 seconds">>))
      [] IsA(exc, "RequestException") ->
            Returned("request", ErrorText(<<"Request failed: ", exc>>))
      [] OTHER -> Throw(exc)

\* The except clauses of _generate_normal, tried in order.
OuterHandler(exc) ==
    CASE IsA(exc, "Timeout") ->
            Returned("timeout", ErrorText(<<"Request timed out after 60 seconds">>))
      [] IsA(exc, "ConnectionError") ->
            Returned("connect", ErrorText(<<"Could not connect to Ollama. Is it running?">>))
      [] IsA(exc, "RequestException") ->
            Returned("request", ErrorText(<<"Request failed: ", exc>>))
      [] IsA(exc, "Exception") ->
            Returned("unexpected", ErrorText(<<"Unexpected error: ", exc>>))
      [] OTHER -> Throw(exc)

\* OllamaChat._generate_normal on the backend's outcome o.
generate_normal(o) ==
    IF o.exc # "none"
    THEN OuterHandler(o.exc)
    ELSE LET r == ReadResponse(o)
         IN  IF r.exc # "none" THEN OuterHandler(r.exc) ELSE r

\* The outcomes of GET /api/tags.
Probe(exc, status) == [exc |-> exc, status |-> status]
NoProbe == Probe("none", 0)
Probes ==
    { Probe("none", 200), Probe("none", 503),
      Probe("ConnectionError", 0), Probe("ReadTimeout", 0) }

\* A slip: any answer at all counts as available.
is_availableAnyStatus(p) == p.exc = "none"

\* OllamaChat.is_available: any exception is "not available".
is_available(p) == IF p.exc # "none" THEN FALSE ELSE p.status = 200

\* ------------------------------------------------------------ the handlers

Turn(role, content) == [role |-> role, content |-> content]

\* What the text box can hold when Send is clicked.
UserInputs ==
    { <<>>, <<" ", " ", " ">>, <<"\t">>, <<"h", "i">>, <<" ", "h", "i", " ">> }

quick_questions ==
    << <<"What are operational risk management requirements?">>,
       <<"How should banks monitor credit risk?">>,
       <<"What are capital adequacy guidelines?">>,
       <<"What are technology risk controls?">> >>

NotAvailableText == <<"Ollama is not available. Please start the Ollama service.">>

\* What one run of a handler did: the transcript it leaves, the st.error
\* messages it showed, whether it probed and whether it called generate (and
\* what that returned), and whether an exception escaped the script.
Ran(msgs, errors, probed, generated, result, crashed) ==
    [messages |-> msgs, errors |-> errors, probed |-> probed,
     generated |-> generated, result |-> result, crashed |-> crashed]

\* A slip: any non-empty input is let through.
InputAcceptedUnstripped(user_input) == user_input # <<>>

\* `user_input.strip()` in the condition of the Send handler.
InputAccepted(user_input) == Strip(user_input) # <<>>

\* A slip: `if` where the code has `elif`, so an error string is shown and
\* then stored as the answer too.
ClassifySendFallThrough(msgs, response) ==
    IF StartsWith(response, ErrorColon)
    THEN Ran(Append(msgs, Turn("assistant", response)), <<response>>,
             TRUE, TRUE, NoResult, FALSE)
    ELSE Ran(Append(msgs, Turn("assistant", response)), <<>>,
             TRUE, TRUE, NoResult, FALSE)

\* The Send handler's reading of the string generate returned (msgs already
\* holds the user turn).
ClassifySend(msgs, response) ==
    IF response # <<>>
    THEN IF StartsWith(response, ErrorColon)
         THEN Ran(msgs, <<response>>, TRUE, TRUE, NoResult, FALSE)
         ELSE IF Len(Strip(response)) > 0
              THEN Ran(Append(msgs, Turn("assistant", response)), <<>>,
                       TRUE, TRUE, NoResult, FALSE)
              ELSE Ran(msgs, << <<"Received empty response from Ollama">> >>,
                       TRUE, TRUE, NoResult, FALSE)
    ELSE Ran(msgs, << <<"Invalid response type from Ollama: ", "str">> >>,
             TRUE, TRUE, NoResult, FALSE)

\* A slip: the user turn is appended before the availability gate.
SendHandlerUngated(msgs, user_input, p, o) ==
    IF ~InputAccepted(user_input)
    THEN Ran(msgs, <<>>, FALSE, FALSE, NoResult, FALSE)
    ELSE LET withUser == Append(msgs, Turn("user", user_input))
             r == generate_normal(o)
         IN  IF ~is_available(p)
             THEN Ran(withUser, <<NotAvailableText>>, TRUE, FALSE, NoResult, FALSE)
             ELSE [ClassifySend(withUser, r.text) EXCEPT !.result = r]

\* The Send handler: `if send_button and user_input.strip(): ...`.
SendHandler(msgs, user_input, p, o) ==
    IF ~InputAccepted(user_input)
    THEN Ran(msgs, <<>>, FALSE, FALSE, NoResult, FALSE)
    ELSE IF ~is_available(p)
         THEN Ran(msgs, <<NotAvailableText>>, TRUE, FALSE, NoResult, FALSE)
         ELSE LET withUser == Append(msgs, Turn("user", user_input))
                  r == generate_normal(o)
              IN  IF r.exc # "none"
                  THEN \* except Exception as e: st.error(...)
                       Ran(withUser, << <<"Error generating response: ", r.exc>> >>,
                           TRUE, TRUE, r, FALSE)
                  ELSE [ClassifySend(withUser, r.text) EXCEPT !.result = r]

\* The handler of a Quick Question button.  It has no try/except: an
\* exception out of generate ends the script run.
QuickHandler(msgs, question, o) ==
    LET withUser == Append(msgs, Turn("user", question))
        r == generate_normal(o)
    IN  IF r.exc # "none"
        THEN Ran(withUser, <<>>, FALSE, TRUE, r, TRUE)
        ELSE IF /\ r.text # <<>>
                /\ ~StartsWith(r.text, ErrorWord)
                /\ ~StartsWith(r.text, ConnectionErrorWord)
             THEN Ran(Append(withUser, Turn("assistant", r.text)), <<>>,
                      FALSE, TRUE, r, FALSE)
             ELSE Ran(withUser,
                      << <<"Failed to get response for quick question: ">> \o r.text >>,
                      FALSE, TRUE, r, FALSE)

\* ------------------------------------------------------- _generate_stream

\* One element of response.iter_lines(): what the backend sent on a line.
Line(kind, content, done) == [kind |-> kind, content |-> content, done |-> done]

Fragments == { <<>>, <<" ">>, <<"a">>, <<" ", "b", " ">> }

Lines ==
    \* a JSON object with message.content and maybe the done flag
    { Line("chunk", c, d) : c \in Fragments, d \in BOOLEAN }
    \* a JSON object without message.content
    \cup { Line("nomessage", NoText, d) : d \in BOOLEAN }
    \cup { Line("empty", NoText, FALSE),        \* a keep-alive: `if line:` is False
           Line("badjson", NoText, FALSE),      \* json.loads raises JSONDecodeError
           Line("undecodable", NoText, FALSE),  \* line.decode raises UnicodeDecodeError
           Line("notobject", NoText, FALSE),    \* a JSON number: `"message" in data` raises
           Line("dropped", NoText, FALSE) }     \* iter_lines raises: the connection broke

RECURSIVE SeqsUpTo(_, _)
SeqsUpTo(S, n) ==
    IF n = 0
    THEN {<<>>}
    ELSE LET shorter == SeqsUpTo(S, n - 1)
         IN  shorter \cup { Append(q, x) : q \in shorter, x \in S }

\* The generator's state: pc is its position ("idle": never created, "start":
\* created and not yet advanced, "iter": inside the for loop, "done":
\* finished), i the next line, yielded the fragments handed to the consumer.
Stream(pc, post, lines, i, yielded, full, exc, raised) ==
    [pc |-> pc, post |-> post, lines |-> lines, i |-> i, yielded |-> yielded,
     full_response |-> full, exc |-> exc, raised |-> raised]

IdleStream == Stream("idle", "none", <<>>, 1, <<>>, NoText, "none", FALSE)

\* except Exception as e: yield f"Error: {e}"
StreamCatch(st, exc) ==
    IF IsA(exc, "Exception")
    THEN [st EXCEPT !.pc = "done", !.exc = exc,
                    !.yielded = Append(@, ErrorText(<<exc>>))]
    ELSE [st EXCEPT !.pc = "done", !.exc = exc, !.raised = TRUE]

\* The exception, if any, that reading and parsing a line raises.
LineException(line) ==
    CASE line.kind = "dropped"     -> "ChunkedEncodingError"
      [] line.kind = "undecodable" -> "UnicodeDecodeError"
      [] line.kind = "badjson"     -> "JSONDecodeError"
      [] line.kind = "notobject"   -> "TypeError"
      [] OTHER                     -> "none"

\* A slip: a line that does not parse ends the stream, and the done flag is
\* looked at before the content.
StreamLineStrict(st, line) ==
    LET next == [st EXCEPT !.i = @ + 1]
        exc  == LineException(line)
    IN  CASE line.kind = "empty" -> next
          [] exc # "none" -> StreamCatch(next, exc)
          [] line.done -> [next EXCEPT !.pc = "done"]
          [] line.kind = "chunk" ->
                [next EXCEPT !.full_response = @ \o line.content,
                             !.yielded = Append(@, line.content)]
          [] OTHER -> next

\* One pass of `for line in response.iter_lines()`.
StreamLine(st, line) ==
    LET next == [st EXCEPT !.i = @ + 1]
        exc  == LineException(line)
    IN  CASE line.kind = "dropped" -> StreamCatch(next, exc)
          [] line.kind = "empty" -> next
          [] exc # "none" ->
                \* inside the inner try: except json.JSONDecodeError: continue
                IF IsA(exc, "JSONDecodeError")
                THEN next
                ELSE StreamCatch(next, exc)
          [] OTHER ->
                LET got == IF line.kind = "chunk"
                           THEN [next EXCEPT !.full_response = @ \o line.content,
                                             !.yielded = Append(@, line.content)]
                           ELSE next
                IN  IF line.done THEN [got EXCEPT !.pc = "done"] ELSE got

\* ----------------------------------------------------------------- actions

Ran0 == Ran(<<>>, <<>>, FALSE, FALSE, NoResult, FALSE)

Last(op, input, p, o, before, ran) ==
    [op |-> op, input |-> input, probe |-> p, outcome |-> o, before |-> before,
     ran |-> ran]

\* The backend answered 200 with non-blank generated text.
BackendSuccess(o) ==
    /\ o.exc = "none" /\ o.status = 200 /\ o.shape = "content"
    /\ \E k \in 1..Len(o.content) : o.content[k] \notin WS

Init ==
    /\ messages = <<>>
    /\ last = Last("none", NoText, NoProbe, NoOutcome, <<>>, Ran0)
    /\ allSuccess = TRUE
    /\ stream = IdleStream

\* The user clicks Send with `q` in the text box.
Send ==
    /\ Len(messages) + 2 <= MaxTurns
    /\ \E q \in UserInputs, p \in Probes, o \in Outcomes :
         LET h == SendHandler(messages, q, p, o)
         IN  /\ messages' = h.messages
             /\ last' = Last("send", q,
                             IF h.probed THEN p ELSE NoProbe,
                             IF h.generated THEN o ELSE NoOutcome,
                             messages, h)
             /\ allSuccess' = IF h.generated THEN allSuccess /\ BackendSuccess(o)
                              ELSE IF h.probed THEN FALSE
                              ELSE allSuccess
    /\ UNCHANGED stream

\* The user clicks one of the Quick Questions, shown while the transcript is
\* empty.
Quick ==
    /\ messages = <<>>
    /\ Len(messages) + 2 <= MaxTurns
    /\ \E n \in 1..Len(quick_questions), o \in Outcomes :
         LET h == QuickHandler(messages, quick_questions[n], o)
         IN  /\ messages' = h.messages
             /\ last' = Last("quick", quick_questions[n], NoProbe, o, messages, h)
             /\ allSuccess' = (allSuccess /\ BackendSuccess(o))
    /\ UNCHANGED stream

\* The user clicks Clear Chat.
ClearChat ==
    /\ messages' = <<>>
    /\ last' = Last("clear", NoText, NoProbe, NoOutcome, messages, Ran0)
    /\ allSuccess' = TRUE
    /\ UNCHANGED stream

Next == Send \/ Quick \/ ClearChat

Spec == Init /\ [][Next]_vars

\* The streaming generator, driven by its consumer: generate(prompt, True)
\* over every outcome of the request and every sequence of lines.
InitStream ==
    /\ messages = <<>>
    /\ last = Last("none", NoText, NoProbe, NoOutcome, <<>>, Ran0)
    /\ allSuccess = TRUE
    /\ \/ \E lines \in SeqsUpTo(Lines, MaxLines) :
             stream = Stream("start", "none", lines, 1, <<>>, NoText, "none", FALSE)
       \/ \E e \in PostFaults :
             stream = Stream("start", e, <<>>, 1, <<>>, NoText, "none", FALSE)

\* The first next(): requests.post(..., stream=True).
StreamPost ==
    /\ stream.pc = "start"
    /\ stream' = IF stream.post # "none"
                 THEN StreamCatch(stream, stream.post)
                 ELSE [stream EXCEPT !.pc = "iter"]
    /\ UNCHANGED <<messages, last, allSuccess>>

\* The loop takes the next line.
StreamNextLine ==
    /\ stream.pc = "iter"
    /\ stream.i <= Len(stream.lines)
    /\ stream' = StreamLine(stream, stream.lines[stream.i])
    /\ UNCHANGED <<messages, last, allSuccess>>

\* The connection closed: the loop ends and the generator returns.
StreamClose ==
    /\ stream.pc = "iter"
    /\ stream.i > Len(stream.lines)
    /\ stream' = [stream EXCEPT !.pc = "done"]
    /\ UNCHANGED <<messages, last, allSuccess>>

NextStream == StreamPost \/ StreamNextLine \/ StreamClose

SpecStream == InitStream /\ [][NextStream]_vars

\* ------------------------------------------------------------------ claims

\* Empty or whitespace-only.
Blank(s) == \A k \in 1..Len(s) : s[k] \in WS

\* s without its leading and trailing whitespace, by position.
Trimmed(s) ==
    LET solid == { k \in 1..Len(s) : s[k] \notin WS }
    IN  IF solid = {}
        THEN <<>>
        ELSE SubSeq(s, CHOOSE k \in solid : \A j \in solid : k <= j,
                       CHOOSE k \in solid : \A j \in solid : k >= j)

IsPrefixOf(a, b) == Len(a) <= Len(b) /\ SubSeq(b, 1, Len(a)) = a

RECURSIVE Concat(_)
Concat(ss) == IF ss = <<>> THEN <<>> ELSE Head(ss) \o Concat(Tail(ss))

Before == last.before
Grown(n) == Len(messages) = Len(Before) + n
ProbeOk == last.probe.exc = "none" /\ last.probe.status = 200
SentNonBlank == last.op = "send" /\ ~Blank(last.input)
UserTurn == Turn("user", last.input)
CouldNotConnect == ErrorText(<<"Could not connect to Ollama. Is it running?">>)

C2_BlankIsNoOp ==
    last.op = "send" /\ Blank(last.input) =>
        /\ messages = Before
        /\ ~last.ran.generated
        /\ ~last.ran.probed
        /\ last.ran.errors = <<>>

C2_Witness ==
    /\ last.op = "send" /\ Blank(last.input) /\ last.input # <<>>
    /\ Before # <<>>
    /\ messages = Before

C4_SuccessAppendsAssistant ==
    last.op = "send" /\ last.ran.generated /\ BackendSuccess(last.outcome) =>
        messages = Before \o <<UserTurn, Turn("assistant", Trimmed(last.outcome.content))>>

Alternates ==
    \A k \in 1..Len(messages) :
        messages[k].role = IF k % 2 = 1 THEN "user" ELSE "assistant"

\* C5: every assistant turn comes directly after a user turn, and while every
\* submission since the transcript was last empty has succeeded at the
\* backend the roles alternate user, assistant, user, assistant.
C5_TurnPairing ==
    /\ \A k \in 1..Len(messages) :
          messages[k].role = "assistant" => k > 1 /\ messages[k - 1].role = "user"
    /\ allSuccess => Alternates

\* C6: every accepted submission (a Send that passed the blank test and the
\* availability gate, or a Quick Question) ends in exactly one of two ways:
\* the user turn followed by an assistant turn and no error shown, or the
\* user turn alone and one error shown; the script run does not die.
C6_ResolvedOnce ==
    last.ran.generated =>
        /\ ~last.ran.crashed
        /\ IsPrefixOf(Append(Before, UserTurn), messages)
        /\ \/ /\ Grown(2)
              /\ messages[Len(messages)].role = "assistant"
              /\ last.ran.errors = <<>>
           \/ /\ Grown(1)
              /\ Len(last.ran.errors) = 1

C6_Witness ==
    /\ last.op = "send" /\ last.ran.generated
    /\ Before # <<>>
    /\ Grown(1)
    /\ Len(last.ran.errors) = 1
    /\ messages[Len(messages)] = UserTurn

\* The kinds of result: the return statements of _generate_normal under the
\* names the specification gives them.
KindOf(ret) ==
    CASE ret = "content"    -> "Success"
      [] ret = "empty"      -> "EMPTY_CONTENT"
      [] ret = "format"     -> "MALFORMED_RESPONSE"
      [] ret = "json"       -> "MALFORMED_RESPONSE"
      [] ret = "status"     -> "BACKEND_ERROR"
      [] ret = "timeout"    -> "TIMEOUT"
      [] ret = "connect"    -> "UNREACHABLE"
      [] ret = "request"    -> "TRANSPORT_ERROR"
      [] ret = "unexpected" -> "TRANSPORT_ERROR"
      [] OTHER              -> "unclassified"

Kinds ==
    {"Success", "EMPTY_CONTENT", "MALFORMED_RESPONSE", "BACKEND_ERROR", "TIMEOUT",
     "UNREACHABLE", "TRANSPORT_ERROR"}

\* The kinds the claim names for the outcomes it lists; any kind for the rest.
KindsAllowed(o) ==
    CASE IsA(o.exc, "Timeout")          -> {"TIMEOUT"}
      [] IsA(o.exc, "ConnectionError")  -> {"UNREACHABLE"}
      [] o.exc # "none"                 -> {"TRANSPORT_ERROR"}
      [] o.status # 200                 -> {"BACKEND_ERROR"}
      [] o.shape = "content" /\ Blank(o.content)  -> {"EMPTY_CONTENT"}
      [] o.shape = "content"            -> {"Success"}
      [] o.shape \in {"nomessage", "nocontent"}   -> {"MALFORMED_RESPONSE"}
      [] OTHER                          -> Kinds \ {"Success"}

C9_NoBlankTurn ==
    \A k \in 1..Len(messages) : ~Blank(messages[k].content)

C9_Witness ==
    /\ Len(messages) >= 3
    /\ \E k \in 1..Len(messages) :
          messages[k].role = "user" /\ messages[k].content[1] \in WS
    /\ last.ran.generated /\ last.outcome.content # <<>> /\ Blank(last.outcome.content)

\* What the lines of the stream are, read off the backend's transcript.
Parses(line) == line.kind \in {"chunk", "nomessage"}
Breaks(line) == line.kind \in {"dropped", "undecodable", "notobject"}

\* The first line that sets the done flag or raises; past the end if none.
StopAt ==
    LET stops == { k \in 1..Len(stream.lines) :
                     \/ Parses(stream.lines[k]) /\ stream.lines[k].done
                     \/ Breaks(stream.lines[k]) }
    IN  IF stops = {}
        THEN Len(stream.lines) + 1
        ELSE CHOOSE k \in stops : \A j \in stops : k <= j

Broken == StopAt <= Len(stream.lines) /\ Breaks(stream.lines[StopAt])

HasContent(line) == line.kind = "chunk"

\* The content of the chunks that parse among the first n lines, in order.
ContentsUpTo(n) ==
    LET chunks == SelectSeq(SubSeq(stream.lines, 1, n), HasContent)
    IN  [k \in 1..Len(chunks) |-> chunks[k].content]

ReadSoFar == IF stream.i - 1 < StopAt THEN stream.i - 1 ELSE StopAt
ReadInAll == IF StopAt <= Len(stream.lines) THEN StopAt ELSE Len(stream.lines)

\* The text the backend generated: the content of its chunks up to the one
\* that sets the done flag.
TotalText == Concat(ContentsUpTo(ReadInAll))

CleanEnd == stream.pc = "done" /\ stream.exc = "none"

SingleShot == generate_normal(Response(200, "content", "none", TotalText))

\* C8 as stated: the fragments of a stream, concatenated, are the content the
\* non-streaming path returns for one response carrying the same total text
\* (taken here only where that text is not blank, so that the non-streaming
\* path does return content).
C8_Original ==
    CleanEnd /\ ~Blank(TotalText) => Concat(stream.yielded) = SingleShot.text

\* C8 (amended): for a stream that ends without an exception, the fragments
\* concatenated and then rid of leading and trailing whitespace are the
\* content the non-streaming path returns for one response carrying the same
\* total text, provided that text is not blank; for a blank total text the
\* non-streaming path returns its empty-content error while the stream yields
\* the blank fragments as they are.
C8_StreamEqualsStripped ==
    CleanEnd =>
        /\ Concat(stream.yielded) = TotalText
        /\ ~Blank(TotalText) =>
              /\ SingleShot.ret = "content"
              /\ SingleShot.text = Trimmed(Concat(stream.yielded))
        /\ Blank(TotalText) => SingleShot.ret = "empty"

C8_Witness ==
    /\ CleanEnd
    /\ Len(stream.yielded) >= 2
    /\ ~Blank(TotalText)
    /\ Concat(stream.yielded) # Trimmed(Concat(stream.yielded))

IsErrorFragment(f) == StartsWith(f, ErrorColon \o <<" ">>)

====
